---------------------------- MODULE Spec2Model ----------------------------
(***************************************************************************)
(* A model of the diabetic-data cleaning script (src/src/data_cleaning.py) *)
(* and of the ICD-9 scraper (src/src/icd9_scraper.py).                     *)
(*                                                                         *)
(* A DataFrame is a record [cols, rows]: cols is the set of column names,  *)
(* rows the sequence of rows, each a function from cols to cells.  A cell  *)
(* is <<>> (NaN / null) or <<v>> (the value v).  A text (a line of the     *)
(* mapping file, a description, an ICD-9 code, the text of an HTML node)   *)
(* is a sequence of characters; the three section names of the mapping     *)
(* file are single characters of the alphabet.                             *)
(***************************************************************************)
EXTENDS Integers, Sequences, FiniteSets, TLC

VARIABLES
    pc,               \* position of the running function
    df,               \* the DataFrame being worked on
    arg,              \* the other arguments of the function under call
    ret,              \* what the function under call returned or raised
    line,             \* load_mapping_sections: the line the loop holds
    nread,            \* load_mapping_sections: lines read from the file so far
    current_section,  \* load_mapping_sections: local current_section
    sections,         \* load_mapping_sections: local sections
    rawFile,          \* data/raw/diabetic_data.csv (<<>> when missing)
    mapFile,          \* data/raw/IDs_mapping.csv (<<>> when missing)
    maps,             \* clean_diabetic_data: the three mapping DataFrames
    output,           \* the writes made to data/processed/diabetic_data_clean.csv
    log,              \* the pipeline steps completed so far (console output)
    codes,            \* scrape_top_codes: its argument
    idx,              \* scrape_top_codes: position of the for loop in codes
    resp,             \* scrape_top_codes: the HTTP exchange in flight
    descriptions      \* scrape_top_codes: local descriptions

vars == <<pc, df, arg, ret, line, nread, current_section, sections, rawFile,
          mapFile, maps, output, log, codes, idx, resp, descriptions>>

----------------------------------------------------------------------------
(* Bounds of the model.                                                    *)

\* Rows of a DataFrame handed to one cleaning function.
MaxRows == 2

\* Entries of a mapping table handed to merge_id_descriptions.
MaxMapRows == 2

\* Rows of the raw CSV the pipeline loads.
MaxPipeRows == 3

\* Lines of the mapping file read by load_mapping_sections.
MaxLines == 3

\* Characters of a line of the mapping file (longer sample lines are added).
MaxLineLen == 2

\* Codes handed to scrape_top_codes.
MaxCodes == 2

\* div.dlvl nodes of one HTTP response.
MaxResults == 2

----------------------------------------------------------------------------
(* Cells, rows and DataFrames.                                             *)

NaN == <<>>

Val(v) == <<v>>

isna(cell) == cell = NaN

EmptyTable == [cols |-> {}, rows |-> <<>>]

\* All DataFrames over the columns cs with cells from cells and at most n rows.
Tables(cs, cells, n) ==
    [cols : {cs}, rows : UNION {[1..k -> [cs -> cells]] : k \in 0..n}]

Ok(t) == [status |-> "ok", df |-> t]

Raise(e) == [status |-> e, df |-> EmptyTable]

NoRet == [status |-> "none", df |-> EmptyTable]

\* df.drop(columns=cs): every row loses the columns cs.
DropCols(t, cs) ==
    [cols |-> t.cols \ cs,
     rows |-> [i \in 1..Len(t.rows) |-> [c \in t.cols \ cs |-> t.rows[i][c]]]]

\* The number of NaN cells of column col.
NaCount(t, col) == Cardinality({i \in 1..Len(t.rows) : isna(t.rows[i][col])})

\* MissingOver with >= for >: a column at the threshold is dropped too.
MissingOver_AtOrOver(t, col, threshold) ==
    /\ Len(t.rows) > 0
    /\ NaCount(t, col) * threshold.den >= threshold.num * Len(t.rows)

\* df[col].isna().mean() > threshold, the threshold being num/den.  The mean
\* of an empty column is NaN, and NaN > threshold is False.
MissingOver(t, col, threshold) ==
    /\ Len(t.rows) > 0
    /\ NaCount(t, col) * threshold.den > threshold.num * Len(t.rows)

\* drop_columns_if_missing(df, threshold, columns); columns is <<>> for None
\* and <<cs>> for a list naming the columns cs.  df[col] raises KeyError for
\* a column the table does not have.
drop_columns_if_missing(t, threshold, columns) ==
    LET listed == IF columns = <<>> THEN t.cols ELSE columns[1]
        cols_to_drop == {col \in listed : MissingOver(t, col, threshold)}
    IN  IF ~(listed \subseteq t.cols) THEN Raise("KeyError")
        ELSE IF cols_to_drop # {} THEN Ok(DropCols(t, cols_to_drop))
        ELSE Ok(t)

\* Series.isin(values): NaN is in no list of numbers.
isin(cell, values) == ~isna(cell) /\ cell[1] \in values

\* remove_expired_patients with isin testing the values only: a row with a
\* missing discharge_disposition_id is removed with the expired ones.
remove_expired_patients_DropsMissing(t, expired_ids) ==
    IF "discharge_disposition_id" \notin t.cols THEN t
    ELSE [cols |-> t.cols,
          rows |-> SelectSeq(t.rows,
                     LAMBDA r : /\ ~isna(r["discharge_disposition_id"])
                                /\ ~isin(r["discharge_disposition_id"], expired_ids))]

\* remove_expired_patients(df, expired_ids)
remove_expired_patients(t, expired_ids) ==
    IF "discharge_disposition_id" \notin t.cols THEN t
    ELSE [cols |-> t.cols,
          rows |-> SelectSeq(t.rows,
                     LAMBDA r : ~isin(r["discharge_disposition_id"], expired_ids))]

\* The elements of s at the positions keep, from position i on, in order.
RECURSIVE SelectIdx(_, _, _)
SelectIdx(s, keep, i) ==
    IF i > Len(s) THEN <<>>
    ELSE (IF i \in keep THEN <<s[i]>> ELSE <<>>) \o SelectIdx(s, keep, i + 1)

\* drop_duplicates keeping the last of the equal rows (keep='last').
drop_duplicates_KeepLast(t, key) ==
    LET same(i, j) == \A c \in key : t.rows[i][c] = t.rows[j][c]
        last == {i \in 1..Len(t.rows) :
                    \A j \in (i + 1)..Len(t.rows) : ~same(i, j)}
    IN  [cols |-> t.cols, rows |-> SelectIdx(t.rows, last, 1)]

\* DataFrame.drop_duplicates(subset=key): of the rows equal on the columns
\* key the first is kept (NaN equals NaN here, as in pandas).
drop_duplicates(t, key) ==
    LET same(i, j) == \A c \in key : t.rows[i][c] = t.rows[j][c]
        first == {i \in 1..Len(t.rows) : \A j \in 1..(i - 1) : ~same(i, j)}
    IN  [cols |-> t.cols, rows |-> SelectIdx(t.rows, first, 1)]

\* pd.DataFrame(entries) of a list of {"id", "description"} dicts: the empty
\* list gives a DataFrame with no columns at all.
DataFrameOf(entries) ==
    IF entries = <<>> THEN EmptyTable
    ELSE [cols |-> {"id", "description"},
          rows |-> [i \in 1..Len(entries) |->
                      [c \in {"id", "description"} |-> Val(entries[i][c])]]]

\* df[['id', 'description']]
Project(t, cs) ==
    [cols |-> cs, rows |-> [i \in 1..Len(t.rows) |-> [c \in cs |-> t.rows[i][c]]]]

\* One left row joined with the right row m of the right table.
Joined(left, right, r, m) ==
    [c \in left.cols \cup right.cols |-> IF c \in left.cols THEN r[c] ELSE m[c]]

\* One left row that matches no right row: the right columns are NaN.
Unmatched(left, right, r) ==
    [c \in left.cols \cup right.cols |-> IF c \in left.cols THEN r[c] ELSE NaN]

\* The rows of left.merge(right, how='left', left_on=, right_on=) from left
\* row i on: the left rows in their order, each once per matching right row.
RECURSIVE MergeRows(_, _, _, _, _)
MergeRows(left, right, left_on, right_on, i) ==
    IF i > Len(left.rows) THEN <<>>
    ELSE LET r == left.rows[i]
             hits == SelectSeq(right.rows, LAMBDA m : m[right_on] = r[left_on])
             here == IF hits = <<>> THEN <<Unmatched(left, right, r)>>
                     ELSE [k \in 1..Len(hits) |-> Joined(left, right, r, hits[k])]
         IN  here \o MergeRows(left, right, left_on, right_on, i + 1)

merge_left(left, right, left_on, right_on) ==
    [cols |-> left.cols \cup right.cols,
     rows |-> MergeRows(left, right, left_on, right_on, 1)]

\* df.rename(columns={old: new})
Rename(t, old, new) ==
    LET back(c) == IF c = new THEN old ELSE c
    IN  [cols |-> (t.cols \ {old}) \cup {new},
         rows |-> [i \in 1..Len(t.rows) |->
                     [c \in (t.cols \ {old}) \cup {new} |-> t.rows[i][back(c)]]]]

\* UniqueMapping without the drop_duplicates.
UniqueMapping_KeepsDuplicates(mapping_df) ==
    Project(mapping_df, {"id", "description"})

\* mapping_df[['id', 'description']].drop_duplicates(subset='id')
UniqueMapping(mapping_df) ==
    drop_duplicates(Project(mapping_df, {"id", "description"}), {"id"})

\* merge_id_descriptions(df, mapping_df, id_col, new_col_name).  Selecting
\* ['id', 'description'] from a DataFrame without these columns, and merging
\* on a column df does not have, raise KeyError.  No DataFrame of the model
\* has a column named id, description or new_col_name.
merge_id_descriptions(t, mapping_df, id_col, new_col_name) ==
    IF ~({"id", "description"} \subseteq mapping_df.cols) THEN Raise("KeyError")
    ELSE IF id_col \notin t.cols THEN Raise("KeyError")
    ELSE LET merged == merge_left(t, UniqueMapping(mapping_df), id_col, "id")
         IN  Ok(Rename(DropCols(merged, {"id"}), "description", new_col_name))

----------------------------------------------------------------------------
(* Texts and load_mapping_sections.                                        *)

SectionNames ==
    {"admission_type_id", "discharge_disposition_id", "admission_source_id"}

\* The characters int() reads as decimal digits.
DecimalChars == {"0", "1"}

\* The characters str.isdigit() accepts: the decimal digits and the other
\* Unicode digits, such as the superscript two, here "sup2".
DigitChars == DecimalChars \cup {"sup2"}

Alphabet == SectionNames \cup DigitChars \cup {",", "x", "\"", " "}

DigitValue(ch) == IF ch = "0" THEN 0 ELSE 1

\* str.strip(): leading and trailing whitespace removed.
RECURSIVE lstrip(_, _)
lstrip(s, chars) ==
    IF s # <<>> /\ s[1] \in chars THEN lstrip(Tail(s), chars) ELSE s

RECURSIVE rstrip(_, _)
rstrip(s, chars) ==
    IF s # <<>> /\ s[Len(s)] \in chars
    THEN rstrip(SubSeq(s, 1, Len(s) - 1), chars) ELSE s

strip(s, chars) == rstrip(lstrip(s, chars), chars)

\* line.startswith(name), a section name being one character.
startswith(s, name) == s # <<>> /\ s[1] = name

\* "," in line
HasComma(s) == \E i \in 1..Len(s) : s[i] = ","

\* SplitAt splitting at the last comma (rsplit).
SplitAt_Last(s) ==
    CHOOSE i \in 1..Len(s) : s[i] = "," /\ \A j \in (i + 1)..Len(s) : s[j] # ","

\* The position line.split(",", 1) splits at.
SplitAt(s) == CHOOSE i \in 1..Len(s) : s[i] = "," /\ \A j \in 1..(i - 1) : s[j] # ","

\* str.isdigit(): not empty and every character a digit.
isdigit(s) == s # <<>> /\ \A i \in 1..Len(s) : s[i] \in DigitChars

\* int(s) raises ValueError on a text that is not a decimal number.
IntRaises(s) == s = <<>> \/ \E i \in 1..Len(s) : s[i] \notin DecimalChars

\* int(s) of a text of decimal digits.
RECURSIVE int(_)
int(s) ==
    IF s = <<>> THEN 0
    ELSE 10 * int(SubSeq(s, 1, Len(s) - 1)) + DigitValue(s[Len(s)])

NoSection == <<>>

EmptySections == [name \in SectionNames |-> <<>>]

\* The section a header line names (the if/elif chain of the loop).
HeaderOf(s) ==
    IF startswith(s, "admission_type_id") THEN <<"admission_type_id">>
    ELSE IF startswith(s, "discharge_disposition_id")
         THEN <<"discharge_disposition_id">>
    ELSE IF startswith(s, "admission_source_id") THEN <<"admission_source_id">>
    ELSE NoSection

\* sections[current].append({"id": int(id_val), "description": desc.strip('"')})
AppendEntry(secs, current, id_val, desc) ==
    [secs EXCEPT ![current] =
        Append(@, [id |-> int(id_val), description |-> strip(desc, {"\""})])]

\* The state of the loop when load_mapping_sections starts on a file.
ParseStart ==
    [current_section |-> NoSection, sections |-> EmptySections, raised |-> FALSE]

\* One iteration of the for loop over the file, on the state
\* st = [current_section, sections, raised] and the line raw as read; raised
\* says that int(id_val) raised ValueError.
ParseLine(st, raw) ==
    LET l == strip(raw, {" "})
    IN  IF l = <<>> THEN st
        ELSE IF HeaderOf(l) # NoSection
             THEN [st EXCEPT !.current_section = HeaderOf(l)]
        ELSE IF ~HasComma(l) \/ st.current_section = NoSection THEN st
        ELSE LET k == SplitAt(l)
                 id_val == SubSeq(l, 1, k - 1)
                 desc == SubSeq(l, k + 1, Len(l))
             IN  IF isdigit(id_val)
                 THEN IF IntRaises(id_val) THEN [st EXCEPT !.raised = TRUE]
                      ELSE [st EXCEPT !.sections =
                               AppendEntry(@, st.current_section[1], id_val, desc)]
                 ELSE st

\* The whole loop over the lines of the file, from line i on.
RECURSIVE ParseFrom(_, _, _)
ParseFrom(st, lines, i) ==
    IF i > Len(lines) \/ st.raised THEN st
    ELSE ParseFrom(ParseLine(st, lines[i]), lines, i + 1)

\* The three DataFrames load_mapping_sections builds from its sections.
SectionFrames(secs) ==
    <<DataFrameOf(secs["admission_type_id"]),
      DataFrameOf(secs["discharge_disposition_id"]),
      DataFrameOf(secs["admission_source_id"])>>

\* load_mapping_sections(path) on a file that exists: the three DataFrames,
\* or the ValueError of the loop.
load_mapping_sections(lines) ==
    LET st == ParseFrom(ParseStart, lines, 1)
    IN  IF st.raised THEN [status |-> "ValueError", maps |-> <<>>]
        ELSE [status |-> "ok", maps |-> SectionFrames(st.sections)]

----------------------------------------------------------------------------
(* The pipeline's files and its constants.                                 *)

\* The expired_ids clean_diabetic_data passes.
PipelineExpiredIds == {11, 19, 20, 21}

\* The threshold clean_diabetic_data passes: 0.9.
PipelineThreshold == [num |-> 9, den |-> 10]

\* A field of the raw CSV as pd.read_csv(path, na_values=["?"]) reads it.
ReadCell(field) ==
    IF field = "?" THEN NaN
    ELSE IF field = "1" THEN Val(1)
    ELSE IF field = "10" THEN Val(10)
    ELSE Val(11)

\* load_data(path) on a file that exists.
load_data(csv) ==
    [cols |-> csv.cols,
     rows |-> [i \in 1..Len(csv.rows) |->
                 [c \in csv.cols |-> ReadCell(csv.rows[i][c])]]]

\* The steps of clean_diabetic_data, in the order of its statements.
PipelineSteps ==
    <<"load", "drop", "expired", "maps", "merge1", "merge2", "merge3",
      "dedup", "save">>

\* The position after step k has completed.
After(k) == PipelineSteps[k]

----------------------------------------------------------------------------
(* The scraper.                                                            *)

None == <<>>

NotFound == <<"Description not found">>

\* text.startswith(str(code))
StartsWithText(text, code) ==
    Len(text) >= Len(code) /\ SubSeq(text, 1, Len(code)) = code

\* The first div.dlvl node whose stripped text starts with the code gives
\* the description: the text after the code, stripped.  r is the list of the
\* nodes' texts from node i on.
RECURSIVE FirstMatch(_, _, _)
FirstMatch(r, code, i) ==
    IF i > Len(r) THEN None
    ELSE LET text == strip(r[i], {" "})
         IN  IF StartsWithText(text, code)
             THEN <<strip(SubSeq(text, Len(code) + 1, Len(text)), {" "})>>
             ELSE FirstMatch(r, code, i + 1)

\* get_icd9_description without its try/except: the exception propagates.
get_icd9_description_Propagates(code, exchange) ==
    IF exchange.kind = "error" THEN [raised |-> TRUE, value |-> None]
    ELSE IF exchange.status = 200
         THEN [raised |-> FALSE, value |-> FirstMatch(exchange.results, code, 1)]
    ELSE [raised |-> FALSE, value |-> None]

\* get_icd9_description(code) on the outcome of its HTTP exchange: an
\* exception raised inside the try block (kind "error") is caught there.
\* The result says whether the call raised and what it returned: None, or
\* <<description>>.
get_icd9_description(code, exchange) ==
    IF exchange.kind = "error" THEN [raised |-> FALSE, value |-> None]
    ELSE IF exchange.status = 200
         THEN [raised |-> FALSE, value |-> FirstMatch(exchange.results, code, 1)]
    ELSE [raised |-> FALSE, value |-> None]

\* Python's truth value of desc: None and the empty string are false.
Truthy(desc) == desc # None /\ desc[1] # <<>>

\* descriptions[code] = value
SetItem(d, code, value) ==
    [c \in DOMAIN d \cup {code} |-> IF c = code THEN value ELSE d[c]]

----------------------------------------------------------------------------
(* Values the variables of a specification that does not use them hold.    *)

IdleParse ==
    /\ line = <<>> /\ nread = 0 /\ current_section = NoSection
    /\ sections = EmptySections

IdlePipe ==
    /\ rawFile = <<>> /\ mapFile = <<>> /\ maps = <<>>
    /\ output = <<>> /\ log = <<>>

IdleScrape ==
    /\ codes = <<>> /\ idx = 0 /\ resp = <<>> /\ descriptions = <<>>

IdleCall == df = EmptyTable /\ arg = <<>> /\ ret = NoRet

parseVars == <<line, nread, current_section, sections>>

pipeVars == <<rawFile, mapFile, maps, output, log>>

scrapeVars == <<codes, idx, resp, descriptions>>

callVars == <<df, arg, ret>>

----------------------------------------------------------------------------
(* drop_columns_if_missing called on any table.                            *)

DropColNames == {"weight", "race", "payer_code"}

DropCells == {NaN, Val(1)}

\* Thresholds as fractions: 0, 1/2, 0.9 (the pipeline's) and 1.
Thresholds ==
    {[num |-> 0, den |-> 1], [num |-> 1, den |-> 2],
     PipelineThreshold, [num |-> 1, den |-> 1]}

InitDrop ==
    /\ pc = "call_drop"
    /\ df \in Tables(DropColNames, DropCells, MaxRows)
              \cup Tables({"race"}, DropCells, MaxRows)
    /\ arg \in [threshold : Thresholds,
                columns : {<<>>} \cup {<<cs>> : cs \in SUBSET DropColNames}]
    /\ ret = NoRet
    /\ IdleParse /\ IdlePipe /\ IdleScrape

CallDrop ==
    /\ pc = "call_drop"
    /\ ret' = drop_columns_if_missing(df, arg.threshold, arg.columns)
    /\ pc' = "drop_returned"
    /\ UNCHANGED <<df, arg, parseVars, pipeVars, scrapeVars>>

----------------------------------------------------------------------------
(* remove_expired_patients called on any table.                            *)

ExpiredCells == {NaN, Val(1), Val(11), Val(19)}

\* The default argument [11], the pipeline's list, and two more.
ExpiredIdLists == {{11}, PipelineExpiredIds, {}, {1, 19}}

InitExpired ==
    /\ pc = "call_expired"
    /\ df \in Tables({"discharge_disposition_id", "race"}, ExpiredCells, MaxRows)
              \cup Tables({"race"}, ExpiredCells, MaxRows)
    /\ arg \in [expired_ids : ExpiredIdLists]
    /\ ret = NoRet
    /\ IdleParse /\ IdlePipe /\ IdleScrape

CallExpired ==
    /\ pc = "call_expired"
    /\ ret' = Ok(remove_expired_patients(df, arg.expired_ids))
    /\ pc' = "expired_returned"
    /\ UNCHANGED <<df, arg, parseVars, pipeVars, scrapeVars>>

----------------------------------------------------------------------------
(* merge_id_descriptions called on any table and any mapping table.        *)

MergeCells == {NaN, Val(1), Val(10)}

MergeEntries == [id : {1, 11}, description : {<<"x">>, <<"x", "x">>}]

MappingLists == UNION {[1..k -> MergeEntries] : k \in 0..MaxMapRows}

\* A mapping DataFrame with its two columns and no rows.
NoEntries == [cols |-> {"id", "description"}, rows |-> <<>>]

InitMerge ==
    /\ pc = "call_merge"
    /\ df \in Tables({"admission_type_id", "race"}, MergeCells, MaxRows)
    /\ arg \in [mapping_df : {DataFrameOf(m) : m \in MappingLists}
                               \cup {NoEntries},
                id_col : {"admission_type_id"},
                new_col_name : {"admission_type_desc"}]
    /\ ret = NoRet
    /\ IdleParse /\ IdlePipe /\ IdleScrape

CallMerge ==
    /\ pc = "call_merge"
    /\ ret' = merge_id_descriptions(df, arg.mapping_df, arg.id_col,
                                    arg.new_col_name)
    /\ pc' = "merge_returned"
    /\ UNCHANGED <<df, arg, parseVars, pipeVars, scrapeVars>>

----------------------------------------------------------------------------
(* clean_diabetic_data: the pipeline, one action per statement.            *)

PipeColNames ==
    {"weight", "discharge_disposition_id", "admission_type_id",
     "admission_source_id"}

\* The fields a column of the raw CSV holds in the model.
RawFields(c) ==
    IF c = "weight" THEN {"?", "1"}
    ELSE IF c = "discharge_disposition_id" THEN {"1", "11"}
    ELSE IF c = "admission_type_id" THEN {"1", "10"}
    ELSE {"1"}

RawRows(cs) ==
    {r \in [cs -> {"?", "1", "10", "11"}] : \A c \in cs : r[c] \in RawFields(c)}

RawTablesOver(cs) ==
    [cols : {cs}, rows : UNION {[1..k -> RawRows(cs)] : k \in 0..MaxPipeRows}]

\* Raw CSVs with every column, without weight, without discharge_disposition_id.
RawTables ==
    RawTablesOver(PipeColNames)
    \cup RawTablesOver(PipeColNames \ {"weight"})
    \cup RawTablesOver(PipeColNames \ {"discharge_disposition_id"})

HeaderLine(name) == <<name, ",", "x">>

\* A mapping file with the three sections, ids listed twice, a blank line.
FullMapFile ==
    <<HeaderLine("admission_type_id"), <<"1", ",", "x">>, <<"1", ",", "x", "x">>,
      <<>>,
      HeaderLine("discharge_disposition_id"), <<"1", ",", "\"", "x", ",", "x", "\"">>,
      <<"1", "1", ",", "x">>,
      HeaderLine("admission_source_id"), <<"1", ",", "x">>>>

\* A mapping file whose last section has no entries.
NoSourceMapFile ==
    <<HeaderLine("admission_type_id"), <<"1", ",", "x">>,
      HeaderLine("discharge_disposition_id"), <<"1", ",", "x">>,
      HeaderLine("admission_source_id")>>

\* A mapping file with an id that isdigit() accepts and int() does not.
SuperscriptMapFile ==
    <<HeaderLine("admission_type_id"), <<"sup2", ",", "x">>>>

PipeMapFiles == {FullMapFile, NoSourceMapFile, SuperscriptMapFile, <<>>}

InitPipe ==
    /\ pc = "start"
    /\ rawFile \in {<<>>} \cup {<<t>> : t \in RawTables}
    /\ mapFile \in {<<>>} \cup {<<f>> : f \in PipeMapFiles}
    /\ maps = <<>> /\ output = <<>> /\ log = <<>>
    /\ IdleCall /\ IdleParse /\ IdleScrape

\* Step with the exception swallowed: the run goes on with the table it had.
Step_GoesOn(k, r) ==
    /\ pc = (IF k = 1 THEN "start" ELSE After(k - 1))
    /\ df' = (IF r.status = "ok" THEN r.df ELSE df)
    /\ log' = Append(log, PipelineSteps[k])
    /\ pc' = After(k)

\* The step at position k ran: it raised (the run aborts) or gave the table.
Step(k, r) ==
    /\ pc = (IF k = 1 THEN "start" ELSE After(k - 1))
    /\ IF r.status = "ok"
       THEN /\ df' = r.df
            /\ log' = Append(log, PipelineSteps[k])
            /\ pc' = After(k)
       ELSE /\ pc' = "aborted"
            /\ UNCHANGED <<df, log>>

\* df = load_data(): FileNotFoundError when the raw file is missing.
Load ==
    /\ Step(1, IF rawFile = <<>> THEN Raise("FileNotFoundError")
               ELSE Ok(load_data(rawFile[1])))
    /\ UNCHANGED <<arg, ret, rawFile, mapFile, maps, output, parseVars, scrapeVars>>

\* df = drop_columns_if_missing(df, threshold=0.9, columns=['weight'])
DropWeight ==
    /\ Step(2, drop_columns_if_missing(df, PipelineThreshold, <<{"weight"}>>))
    /\ UNCHANGED <<arg, ret, rawFile, mapFile, maps, output, parseVars, scrapeVars>>

\* df = remove_expired_patients(df, expired_ids=[11,19,20,21])
RemoveExpired ==
    /\ Step(3, Ok(remove_expired_patients(df, PipelineExpiredIds)))
    /\ UNCHANGED <<arg, ret, rawFile, mapFile, maps, output, parseVars, scrapeVars>>

\* What load_mapping_sections(ID_MAP_PATH) gives: open() raises when the file
\* is missing.
LoadedMappings ==
    IF mapFile = <<>> THEN [status |-> "FileNotFoundError", maps |-> <<>>]
    ELSE load_mapping_sections(mapFile[1])

\* admission_type_map, discharge_map, admission_source_map = ...
LoadMappings ==
    /\ Step(4, IF LoadedMappings.status = "ok" THEN Ok(df)
               ELSE Raise(LoadedMappings.status))
    /\ maps' = LoadedMappings.maps
    /\ UNCHANGED <<arg, ret, rawFile, mapFile, output, parseVars, scrapeVars>>

MergeAdmissionType ==
    /\ Step(5, merge_id_descriptions(df, maps[1], "admission_type_id",
                                     "admission_type_desc"))
    /\ UNCHANGED <<arg, ret, rawFile, mapFile, maps, output, parseVars, scrapeVars>>

MergeDischarge ==
    /\ Step(6, merge_id_descriptions(df, maps[2], "discharge_disposition_id",
                                     "discharge_desc"))
    /\ UNCHANGED <<arg, ret, rawFile, mapFile, maps, output, parseVars, scrapeVars>>

MergeAdmissionSource ==
    /\ Step(7, merge_id_descriptions(df, maps[3], "admission_source_id",
                                     "admission_source_desc"))
    /\ UNCHANGED <<arg, ret, rawFile, mapFile, maps, output, parseVars, scrapeVars>>

\* df = df.drop_duplicates()
Dedup ==
    /\ Step(8, Ok(drop_duplicates(df, df.cols)))
    /\ UNCHANGED <<arg, ret, rawFile, mapFile, maps, output, parseVars, scrapeVars>>

\* save_clean_data(df); return df
Save ==
    /\ Step(9, Ok(df))
    /\ output' = Append(output, df)
    /\ ret' = Ok(df)
    /\ UNCHANGED <<arg, rawFile, mapFile, maps, parseVars, scrapeVars>>

----------------------------------------------------------------------------
(* The cleaning functions on any input, and the pipeline.                  *)

Init == InitDrop \/ InitExpired \/ InitMerge \/ InitPipe

Next ==
    \/ CallDrop \/ CallExpired \/ CallMerge
    \/ Load \/ DropWeight \/ RemoveExpired \/ LoadMappings
    \/ MergeAdmissionType \/ MergeDischarge \/ MergeAdmissionSource
    \/ Dedup \/ Save

Spec == Init /\ [][Next]_vars

----------------------------------------------------------------------------
(* load_mapping_sections reading a file line by line.                      *)

\* Lines longer than MaxLineLen: descriptions with commas and quotes, ids
\* of two digits, surrounding whitespace, an id that is no number.
SampleLines ==
    {<<"1", ",", "x", ",", "x">>,
     <<"1", ",", "\"", "x", ",", "x", "\"">>,
     <<" ", "1", "0", ",", "x", " ">>,
     <<"0", "1", ",", "x">>,
     <<"x", "1", ",", "x">>,
     <<"1", " ", ",", "x">>,
     <<"1", "sup2", ",", "x">>,
     <<" ", "admission_source_id", ",", "x">>,
     <<"x", "admission_type_id", ",", "x">>}

Lines == UNION {[1..n -> Alphabet] : n \in 0..MaxLineLen} \cup SampleLines

InitParse ==
    /\ pc = "loop"
    /\ line = <<>> /\ nread = 0
    /\ current_section = NoSection
    /\ sections = EmptySections
    /\ IdleCall /\ IdlePipe /\ IdleScrape

\* for line in f: the next line of the file.
ReadLine ==
    /\ pc = "loop"
    /\ nread < MaxLines
    /\ \E l \in Lines : line' = <<l>>
    /\ nread' = nread + 1
    /\ pc' = "body"
    /\ UNCHANGED <<current_section, sections, callVars, pipeVars, scrapeVars>>

\* The body of the loop on the line read.
ProcessLine ==
    /\ pc = "body"
    /\ LET st == ParseLine([current_section |-> current_section,
                            sections |-> sections, raised |-> FALSE], line[1])
       IN  /\ current_section' = st.current_section
           /\ sections' = st.sections
           /\ pc' = IF st.raised THEN "parse_raised" ELSE "continue"
    /\ UNCHANGED <<line, nread, callVars, pipeVars, scrapeVars>>

\* The body is done (a continue, or its end): back to the for statement.
Continue ==
    /\ pc = "continue"
    /\ line' = <<>>
    /\ pc' = "loop"
    /\ UNCHANGED <<nread, current_section, sections, callVars, pipeVars, scrapeVars>>

\* The file has no more lines: the three DataFrames are returned.
EndOfFile ==
    /\ pc = "loop"
    /\ maps' = SectionFrames(sections)
    /\ pc' = "parse_returned"
    /\ UNCHANGED <<parseVars, callVars, rawFile, mapFile, output, log, scrapeVars>>

NextParse == ReadLine \/ ProcessLine \/ Continue \/ EndOfFile

SpecParse == InitParse /\ [][NextParse]_vars

----------------------------------------------------------------------------
(* scrape_top_codes, one HTTP exchange per code.                           *)

ScrapeCodes == {<<"4">>, <<"4", "2">>}

\* Texts of div.dlvl nodes: "42 h", "4 h", "42", "h", " 4 h".
NodeTexts ==
    {<<"4", "2", " ", "h">>, <<"4", " ", "h">>, <<"4", "2">>, <<"h">>,
     <<" ", "4", " ", "h">>}

\* The outcomes of requests.get and the parse of its content: an exception,
\* a status other than 200, or status 200 with the nodes found.
Exchanges ==
    {[kind |-> "error", status |-> 0, results |-> <<>>],
     [kind |-> "response", status |-> 404, results |-> <<>>]}
    \cup [kind : {"response"}, status : {200},
          results : UNION {[1..n -> NodeTexts] : n \in 0..MaxResults}]

InitScrape ==
    /\ pc = "scrape_loop"
    /\ codes \in UNION {[1..n -> ScrapeCodes] : n \in 0..MaxCodes}
    /\ idx = 0 /\ resp = <<>> /\ descriptions = <<>>
    /\ IdleCall /\ IdleParse /\ IdlePipe

\* get_icd9_description sends its request; the exchange ends one way or another.
Request ==
    /\ pc = "scrape_loop"
    /\ idx < Len(codes)
    /\ \E e \in Exchanges : resp' = <<e>>
    /\ pc' = "fetched"
    /\ UNCHANGED <<codes, idx, descriptions, callVars, parseVars, pipeVars>>

\* desc = get_icd9_description(code); descriptions[code] = ...; next code.
Store ==
    /\ pc = "fetched"
    /\ LET code == codes[idx + 1]
           r == get_icd9_description(code, resp[1])
       IN  IF r.raised
           THEN /\ pc' = "scrape_raised"
                /\ UNCHANGED <<idx, descriptions>>
           ELSE /\ descriptions' =
                      SetItem(descriptions, code,
                              IF Truthy(r.value) THEN r.value[1] ELSE NotFound)
                /\ idx' = idx + 1
                /\ pc' = "scrape_loop"
    /\ UNCHANGED <<codes, resp, callVars, parseVars, pipeVars>>

\* return descriptions
Return ==
    /\ pc = "scrape_loop"
    /\ idx = Len(codes)
    /\ pc' = "scrape_returned"
    /\ UNCHANGED <<codes, idx, resp, descriptions, callVars, parseVars, pipeVars>>

NextScrape == Request \/ Store \/ Return

SpecScrape == InitScrape /\ [][NextScrape]_vars

----------------------------------------------------------------------------
(* Claims about the cleaning functions and the pipeline, under Spec.       *)

\* The columns the call of drop_columns_if_missing lists.
Listed == IF arg.columns = <<>> THEN df.cols ELSE arg.columns[1]

\* The missing cells of column c of df, times the threshold's denominator.
MissingScaled(c) ==
    Cardinality({i \in 1..Len(df.rows) : df.rows[i][c] = NaN}) * arg.threshold.den

\* The rows of df, times the threshold's numerator.
RowsScaled == arg.threshold.num * Len(df.rows)

\* The fraction of missing values of column c is greater than the threshold.
OverThreshold(c) == Len(df.rows) > 0 /\ MissingScaled(c) > RowsScaled

\* The fraction of missing values of column c is the threshold.
AtThreshold(c) == Len(df.rows) > 0 /\ MissingScaled(c) = RowsScaled

\* C1: drop_columns_if_missing, on a table that has the listed columns,
\* removes a column exactly when it is listed and its fraction of missing
\* values is strictly greater than the threshold; a listed column at the
\* threshold, and a column not listed, stay; the rows and the cells of the
\* remaining columns are those of the input.
C1_DropsExactlyOverThreshold ==
    (pc = "drop_returned" /\ Listed \subseteq df.cols) =>
        /\ ret.status = "ok"
        /\ ret.df.cols \subseteq df.cols
        /\ \A c \in df.cols :
              (c \notin ret.df.cols) <=>
                  (c \in Listed /\ OverThreshold(c))
        /\ Len(ret.df.rows) = Len(df.rows)
        /\ \A i \in 1..Len(df.rows) : \A c \in ret.df.cols :
              ret.df.rows[i][c] = df.rows[i][c]

\* A listed column exactly at the threshold is kept while another is dropped.
C1_Witness ==
    /\ pc = "drop_returned" /\ ret.status = "ok"
    /\ \E c \in Listed \cap ret.df.cols : AtThreshold(c)
    /\ \E c \in Listed : c \notin ret.df.cols
    /\ \E c \in df.cols \ Listed : OverThreshold(c)

\* The description the mapping table gives for a cell: that of an entry with
\* the cell's code.
Gives(mapping_df, cell, desc) ==
    \E k \in 1..Len(mapping_df.rows) :
        /\ mapping_df.rows[k]["id"] = cell
        /\ mapping_df.rows[k]["description"] = desc

Known(mapping_df, cell) ==
    \E k \in 1..Len(mapping_df.rows) : mapping_df.rows[k]["id"] = cell

\* C2: for every row, merge_id_descriptions puts in the new column the
\* description the mapping gives for the row's code, and null when the code
\* is not in the mapping, also when the mapping has no entries at all.
C2_EveryRowGetsItsDescription ==
    pc = "merge_returned" =>
        /\ ret.status = "ok"
        /\ Len(ret.df.rows) = Len(df.rows)
        /\ \A i \in 1..Len(df.rows) :
              LET code == df.rows[i][arg.id_col]
                  desc == ret.df.rows[i][arg.new_col_name]
              IN  IF Known(arg.mapping_df, code)
                  THEN Gives(arg.mapping_df, code, desc)
                  ELSE desc = NaN

\* The table second has the rows of first, in their order, with every cell
\* of the columns of first unchanged.
SameRows(first, second) ==
    /\ first.cols \subseteq second.cols
    /\ Len(second.rows) = Len(first.rows)
    /\ \A i \in 1..Len(first.rows) : \A c \in first.cols :
          second.rows[i][c] = first.rows[i][c]

\* C3: merge_id_descriptions never duplicates rows: whatever the mapping
\* table with its id and description columns, also one that lists an id
\* several times, the result has the rows of the input, in order, the
\* original cells unchanged, and so has the table after each of the
\* pipeline's three merges.
C3_MergeKeepsRows ==
    [][/\ (pc' = "merge_returned"
           /\ {"id", "description"} \subseteq arg'.mapping_df.cols) =>
             /\ ret'.status = "ok"
             /\ SameRows(df', ret'.df)
       /\ (pc \in {"maps", "merge1", "merge2"}
           /\ pc' \in {"merge1", "merge2", "merge3"}) => SameRows(df, df')]_vars

\* A mapping that lists an id twice with two descriptions was merged into a
\* table with a row of that id.
C3_Witness ==
    /\ pc = "merge_returned" /\ ret.status = "ok"
    /\ \E j, k \in 1..Len(arg.mapping_df.rows) : \E i \in 1..Len(df.rows) :
          /\ j # k
          /\ arg.mapping_df.rows[j]["id"] = arg.mapping_df.rows[k]["id"]
          /\ arg.mapping_df.rows[j]["description"]
                # arg.mapping_df.rows[k]["description"]
          /\ df.rows[i][arg.id_col] = arg.mapping_df.rows[j]["id"]

\* No two rows of the sequence are equal.
Distinct(rows) ==
    \A i, j \in 1..Len(rows) : i # j => rows[i] # rows[j]

\* The position of the first row of rows equal to r.
FirstAt(rows, r) ==
    CHOOSE i \in 1..Len(rows) : rows[i] = r /\ \A j \in 1..(i - 1) : rows[j] # r

\* after holds the distinct rows of before, each where it first occurs.
FirstOccurrences(before, after) ==
    /\ Distinct(after)
    /\ {after[i] : i \in 1..Len(after)} = {before[i] : i \in 1..Len(before)}
    /\ \A i, j \in 1..Len(after) :
          i < j => FirstAt(before, after[i]) < FirstAt(before, after[j])

\* C4: the deduplication runs after the three merges, keeps the first of the
\* rows equal in every column, in the original order, and removes nothing
\* else; the table written has no two equal rows.
C4_DedupKeepsFirstOccurrences ==
    [][/\ pc' = "dedup" =>
             /\ pc = "merge3"
             /\ df'.cols = df.cols
             /\ FirstOccurrences(df.rows, df'.rows)
       /\ pc' = "save" =>
             /\ pc = "dedup"
             /\ output' = <<df>>
             /\ Distinct(output'[1].rows)]_vars

\* The raw rows a, b, a were written as a, b.
C4_Witness ==
    /\ pc = "save"
    /\ Len(rawFile[1].rows) = 3
    /\ rawFile[1].rows[1] = rawFile[1].rows[3]
    /\ rawFile[1].rows[1] # rawFile[1].rows[2]
    /\ Len(output[1].rows) = 2
    /\ output[1].rows[1]["admission_type_id"]
          # output[1].rows[2]["admission_type_id"]

\* The positions of the rows of df whose discharge_disposition_id is not in
\* expired_ids (a missing one is not).
KeptPositions ==
    {i \in 1..Len(df.rows) :
        \/ df.rows[i]["discharge_disposition_id"] = NaN
        \/ df.rows[i]["discharge_disposition_id"][1] \notin arg.expired_ids}

\* The k-th smallest position kept.
KeptAt(k) ==
    CHOOSE i \in KeptPositions : Cardinality({j \in KeptPositions : j < i}) = k - 1

\* C5: remove_expired_patients returns exactly the rows whose
\* discharge_disposition_id is not in expired_ids, in order, rows with a
\* missing one included; no row the pipeline writes has 11, 19, 20 or 21.
C5_ExpiredRowsRemoved ==
    /\ (pc = "expired_returned" /\ "discharge_disposition_id" \in df.cols) =>
          /\ ret.status = "ok"
          /\ ret.df.cols = df.cols
          /\ Len(ret.df.rows) = Cardinality(KeptPositions)
          /\ \A k \in 1..Len(ret.df.rows) : ret.df.rows[k] = df.rows[KeptAt(k)]
    /\ \A w \in 1..Len(output) : \A i \in 1..Len(output[w].rows) :
          "discharge_disposition_id" \in output[w].cols =>
              output[w].rows[i]["discharge_disposition_id"]
                  \notin {Val(11), Val(19), Val(20), Val(21)}

\* An expired row was removed and the row after it, with a missing
\* discharge_disposition_id, was kept.
C5_Witness ==
    /\ pc = "expired_returned"
    /\ "discharge_disposition_id" \in df.cols
    /\ Len(df.rows) = 2 /\ Len(ret.df.rows) = 1
    /\ df.rows[1]["discharge_disposition_id"] # NaN
    /\ df.rows[2]["discharge_disposition_id"] = NaN
    /\ ret.df.rows[1] = df.rows[2]

\* C7: a cleaning step whose column is absent from the table is skipped and
\* returns the table unchanged without raising, as remove_expired_patients
\* without discharge_disposition_id and as drop_columns_if_missing with a
\* listed column the table does not have.
C7_AbsentColumnSkipped ==
    /\ (pc = "expired_returned" /\ "discharge_disposition_id" \notin df.cols) =>
          ret = Ok(df)
    /\ (pc = "drop_returned" /\ ~(Listed \subseteq df.cols)) => ret = Ok(df)
    /\ ~(pc = "aborted" /\ log = <<"load">>)

\* s is a prefix of t.
Prefix(s, t) == Len(s) <= Len(t) /\ s = SubSeq(t, 1, Len(s))

\* C8: the output file is written at most once, and only after load, column
\* drop, expired-row removal, the three merges and deduplication completed
\* in that order; with the raw file or the mapping file missing the run
\* aborts and nothing is written.
C8_WrittenOnceAtTheEnd ==
    /\ Len(output) <= 1
    /\ Prefix(log, PipelineSteps)
    /\ output # <<>> => log = PipelineSteps
    /\ (rawFile = <<>> /\ pc \in {"aborted"} \cup {After(k) : k \in 1..9}) =>
          pc = "aborted" /\ log = <<>> /\ output = <<>>
    /\ (mapFile = <<>> /\ pc \in {After(k) : k \in 4..9}) => FALSE
    /\ (mapFile = <<>> /\ pc = "aborted") => output = <<>>

\* The pipeline wrote its output after its nine steps.
C8_Witness ==
    /\ pc = "save" /\ Len(output) = 1 /\ log = PipelineSteps
    /\ output[1].rows # <<>>

----------------------------------------------------------------------------
(* Claims about load_mapping_sections, under SpecParse.                    *)

\* The line the loop holds, without its surrounding whitespace.
Held == strip(line[1], {" "})

\* The held line begins with a section name: the loop takes it for a header.
IsHeader == Held # <<>> /\ Held[1] \in SectionNames

\* k is the position of the first comma of the held line.
FirstComma(k) == Held[k] = "," /\ \A j \in 1..(k - 1) : Held[j] # ","

NoComma == \A k \in 1..Len(Held) : Held[k] # ","

\* The text before the first comma has a character that is none of 0..9.
IdNotDigits ==
    \E k \in 1..Len(Held) :
        FirstComma(k) /\ \E j \in 1..(k - 1) : Held[j] \notin DecimalChars

\* The text before the first comma has a character isdigit() refuses.
IdRefused ==
    \E k \in 1..Len(Held) :
        FirstComma(k) /\ \E j \in 1..(k - 1) : Held[j] \notin DigitChars

\* The text before the first comma is a decimal number.
IdIsDigits ==
    \E k \in 2..Len(Held) :
        FirstComma(k) /\ \A j \in 1..(k - 1) : Held[j] \in DecimalChars

\* The loop body ran on the held line.
Processed == pc = "body" /\ pc' # "body"

\* The held line was skipped: nothing raised, no entry, the same section.
Skipped ==
    /\ pc' = "continue"
    /\ sections' = sections
    /\ current_section' = current_section

\* C6: a malformed line (no comma, before any section header, or a text
\* before the first comma that is not all digits) adds no entry to any of
\* the three tables, raises nothing, and leaves the current section as it
\* is.  A line that begins with a section name is a header, not such a line.
C6_MalformedLinesSkipped ==
    [][(Processed /\ ~IsHeader
        /\ (NoComma \/ current_section = NoSection \/ IdNotDigits)) => Skipped]_vars

\* What holds of C6: the lines skipped are those with no comma, before any
\* header, or with a character before the first comma that isdigit() refuses.
MalformedSkippedWhenRefused ==
    [][(Processed /\ ~IsHeader
        /\ (NoComma \/ current_section = NoSection \/ IdRefused)) => Skipped]_vars

\* The entry of a well-formed held line: the number before the first comma
\* and all that follows that comma, without surrounding double quotes.
EntryOfHeld ==
    LET k == CHOOSE k \in 2..Len(Held) : FirstComma(k)
    IN  [id |-> int(SubSeq(Held, 1, k - 1)),
         description |-> strip(SubSeq(Held, k + 1, Len(Held)), {"\""})]

\* C10: a well-formed line id,description goes to the section of the most
\* recent header, split at its first comma only, appended after the entries
\* the section has; a header line names the section of the lines after it
\* and is no entry; no line adds to two tables.
C10_LinesGoToTheirSection ==
    [][Processed =>
          /\ IsHeader =>
                /\ current_section' = <<Held[1]>>
                /\ sections' = sections
          /\ (~IsHeader /\ IdIsDigits /\ current_section # NoSection) =>
                /\ pc' = "continue"
                /\ current_section' = current_section
                /\ sections' =
                      [sections EXCEPT ![current_section[1]] =
                          Append(@, EntryOfHeld)]
          /\ Cardinality({n \in SectionNames : sections'[n] # sections[n]}) <= 1
          /\ \A n \in SectionNames :
                sections'[n] # sections[n] =>
                    /\ current_section = <<n>>
                    /\ Len(sections'[n]) = Len(sections[n]) + 1
                    /\ SubSeq(sections'[n], 1, Len(sections[n])) = sections[n]]_vars

\* A second entry, with a comma in its description, was appended to a section.
C10_Witness ==
    /\ pc = "continue"
    /\ current_section # NoSection
    /\ Len(sections[current_section[1]]) = 2
    /\ ~IsHeader /\ IdIsDigits
    /\ sections[current_section[1]][2] = EntryOfHeld
    /\ \E i \in 1..Len(EntryOfHeld.description) : EntryOfHeld.description[i] = ","

----------------------------------------------------------------------------
(* Claims about scrape_top_codes, under SpecScrape.                        *)

\* The exchange for the code failed: an exception, a status other than 200,
\* or no node whose text starts with the code.
Failed(code, e) ==
    \/ e.kind = "error"
    \/ e.status # 200
    \/ \A i \in 1..Len(e.results) :
          LET text == strip(e.results[i], {" "})
          IN  ~(Len(text) >= Len(code) /\ SubSeq(text, 1, Len(code)) = code)

\* C9: scrape_top_codes returns one entry per distinct code; a failure for a
\* code is caught, the code gets the placeholder, the codes after it are
\* still processed, in input order; nothing get_icd9_description raises
\* reaches the caller.
C9_FailuresCaughtPerCode ==
    [][/\ pc' # "scrape_raised"
       /\ DOMAIN descriptions' = {codes'[i] : i \in 1..idx'}
       /\ pc' = "scrape_returned" =>
             DOMAIN descriptions' = {codes'[i] : i \in 1..Len(codes')}
       /\ pc = "fetched" =>
             /\ idx' = idx + 1
             /\ pc' = "scrape_loop"
             /\ Failed(codes[idx + 1], resp[1]) =>
                   descriptions'[codes[idx + 1]] = NotFound]_vars

\* The first code got the placeholder and the second, after it, a description.
C9_Witness ==
    /\ pc = "scrape_returned"
    /\ Len(codes) = 2 /\ codes[1] # codes[2]
    /\ descriptions[codes[1]] = NotFound
    /\ descriptions[codes[2]] # NotFound
    /\ resp[1].kind = "response"

=============================================================================
